---- MODULE Spec2Model ----
(***************************************************************************)
(* TLS-DID resolver: resolveTlsDid / resolveContract (src/src/resolver.ts) *)
(* and processChains / verifyChain / addValueAtPath (src/src/utils.ts).    *)
(*                                                                         *)
(* One resolution call is modelled as a step machine.  Every `await` of a  *)
(* ledger, OCSP or library call draws its answer from a bounded set at the *)
(* step that makes the call.  JavaScript strings are tuples of tokens, so  *)
(* that substring, split, endsWith and slice are computed, not assumed.    *)
(***************************************************************************)
EXTENDS Integers, Sequences, FiniteSets, TLC

VARIABLES
  pc,             \* position of the resolution call
  did,            \* input identifier
  addresses,      \* resolveContract: result of registry.getContracts
  chains,         \* resolveContract: result of getChains
  filterdChains,  \* processChains: deduplicated chains
  verifiedChains, \* processChains: outcomes pushed so far
  vch,            \* verifyChain: locals of the call in progress
  validChains,    \* resolveContract: outcomes marked valid
  idx,            \* resolveContract: position in the candidate loop
  vcon,           \* verifyContract: locals of the call in progress
  verdicts,       \* resolveContract: value of `valid` in each iteration so far
  validContract,  \* resolveContract: selected candidate
  ledgerAttrs,    \* ledger: attribute list stored on each contract
  attrRead,       \* ledger: contracts whose attribute list has been fixed
  didDocument,    \* resolveTlsDid: document under construction
  attributeCount, \* resolveTlsDid: result of contract.getAttributeCount
  ai,             \* resolveTlsDid: position in the attribute loop
  err,            \* error the resolution promise rejected with
  result,         \* document the resolution promise resolved with
  verifiedAttributes, \* verifyContract: `attributes` hashed for the selected
                      \* candidate
  mergedAttributes    \* resolveTlsDid: attributes passed to addValueAtPath

vars == <<pc, did, addresses, chains, filterdChains, verifiedChains, vch,
          validChains, idx, vcon, verdicts, validContract, ledgerAttrs,
          attrRead, didDocument, attributeCount, ai, err, result,
          verifiedAttributes, mergedAttributes>>

-----------------------------------------------------------------------------
(* Bounds *)

MaxChains == 2
MaxTime == 2
MaxAttrs == 1

-----------------------------------------------------------------------------
(* Strings, identifiers, certificates *)

Prefix == <<"d", "i", "d", ":", "t", "l", "s", ":">>

PrefixLen == 8

Domains == {<<"a.org">>, <<"b.org">>}

DIDs == {Prefix \o d : d \in Domains}

\* did.substring(8)
didDomain(d) == SubSeq(d, PrefixLen + 1, Len(d))

Addr == {"0xA", "0xB"}

None == "none"

\* a PEM certificate is three lines; a chain blob is the lines of its
\* certificates joined by newlines, leaf first
Pem(body) == <<"BEGIN", body, "END">>

BlobA == Pem("LA") \o Pem("IA")

BlobB == Pem("LB") \o Pem("IB")

ChainBlobs == {BlobA, BlobB}

RECURSIVE SeqsUpTo(_, _)
SeqsUpTo(S, n) ==
  IF n = 0 THEN {<<>>}
  ELSE LET shorter == SeqsUpTo(S, n - 1)
       IN shorter \cup {Append(s, x) : s \in {t \in shorter : Len(t) = n - 1},
                                        x \in S}

ChainLists == SeqsUpTo(ChainBlobs, MaxChains)

IsInjective(s) == \A i, j \in 1..Len(s) : s[i] = s[j] => i = j

\* the registry lists each candidate address once
AddrLists == {s \in SeqsUpTo(Addr, Cardinality(Addr)) : IsInjective(s)}

\* chain.split(/\n(?=-----BEGIN CERTIFICATE-----)/g): a new piece starts at
\* every BEGIN line that is not the first line
RECURSIVE SplitLines(_, _, _)
SplitLines(lines, cur, acc) ==
  IF lines = <<>> THEN Append(acc, cur)
  ELSE IF Head(lines) = "BEGIN" /\ cur # <<>>
       THEN SplitLines(Tail(lines), <<Head(lines)>>, Append(acc, cur))
       ELSE SplitLines(Tail(lines), Append(cur, Head(lines)), acc)

chainToCerts(chain) ==
  IF chain = <<>> THEN <<chain>>
  ELSE SplitLines(Tail(chain), <<Head(chain)>>, <<>>)

\* Array.from(new Set(chains)): first occurrences, in input order
RECURSIVE Dedupe(_, _)
Dedupe(s, acc) ==
  IF s = <<>> THEN acc
  ELSE IF \E i \in 1..Len(acc) : acc[i] = Head(s)
       THEN Dedupe(Tail(s), acc)
       ELSE Dedupe(Tail(s), Append(acc, Head(s)))

\* public key carried by a certificate
PubKey(cert) == cert[2]

LeafKeys == {PubKey(chainToCerts(b)[1]) : b \in ChainBlobs}

Undefined == <<"undefined">>

-----------------------------------------------------------------------------
(* Chain validation: verifyChain and its helpers *)

\* pki.verifyCertificateChain: true, false or a thrown error
PathResults == {"ok", "fail", "throw"}

\* the (err, res) pair ocsp.check hands to its callback:
\* res.type, or "none" when there is no res
OcspResponses == {"good", "revoked", "unknown", "none"}

Subjects == Domains \cup {Undefined}

NoFrame == [chain |-> <<>>, parsed |-> "unset", path |-> "unset",
            subject |-> Undefined, hasOCSP |-> "unset", status |-> "unset",
            valid |-> FALSE]

\* pkiObject.subject?.attributes[0]?.value === subject
verifyCertSubject(subjectValue, domain) == subjectValue = domain

\* a check that only rejects a revoked certificate
checkOCSPValid_notRevoked(type) == type # "revoked"

\* res.type === 'good'
checkOCSPValid(type) == type = "good"

\* pki.verifyCertificateChain(...) && verifyCertSubject(chain[0], domain)
chainValidBeforeOCSP(path, subjectValue, domain) ==
  path = "ok" /\ verifyCertSubject(subjectValue, domain)

-----------------------------------------------------------------------------
(* JavaScript values of the document: string, object, array *)

Str(s) == [t |-> "str", v |-> s]

Obj(f) == [t |-> "obj", v |-> f]

Arr(s) == [t |-> "arr", v |-> s]

Thrown == [t |-> "throw", v |-> <<>>]

EmptyObj == Obj(<<>>)

Has(o, key) == key \in DOMAIN o.v

\* truthiness of currentObj[key]: undefined and '' are falsy
Truthy(o, key) == Has(o, key) /\ ~(o.v[key].t = "str" /\ o.v[key].v = <<>>)

\* currentObj[key] = val
SetKey(o, key, val) ==
  Obj([k \in (DOMAIN o.v) \cup {key} |-> IF k = key THEN val ELSE o.v[k]])

\* path.split('/')
RECURSIVE SplitPath(_, _, _)
SplitPath(path, cur, acc) ==
  IF path = <<>> THEN Append(acc, cur)
  ELSE IF Head(path) = "/"
       THEN SplitPath(Tail(path), <<>>, Append(acc, cur))
       ELSE SplitPath(Tail(path), Append(cur, Head(path)), acc)

\* key.endsWith('[]')
EndsWithBrackets(key) ==
  Len(key) >= 2 /\ key[Len(key) - 1] = "[" /\ key[Len(key)] = "]"

\* key.slice(0, -2)
SliceKey(key) == SubSeq(key, 1, Len(key) - 2)

\* non-final array segment whose array exists: push({}) and descend into the
\* pushed element
descendExisting(arr, child) == Arr(Append(arr.v, child))

\* the forEach body of addValueAtPath, from segment 1 of pathArr on
RECURSIVE Walk(_, _, _)
Walk(currentObj, pathArr, value) ==
  LET key == Head(pathArr)
      name == SliceKey(key)
  IN IF Len(pathArr) = 1
     THEN IF EndsWithBrackets(key)
          THEN IF Truthy(currentObj, name)
               THEN IF currentObj.v[name].t = "arr"
                    THEN SetKey(currentObj, name,
                                Arr(Append(currentObj.v[name].v, value)))
                    ELSE Thrown
               ELSE SetKey(currentObj, name, Arr(<<value>>))
          ELSE SetKey(currentObj, key, value)
     ELSE LET child == Walk(EmptyObj, Tail(pathArr), value)
          IN IF EndsWithBrackets(key)
             THEN IF Truthy(currentObj, name)
                  THEN IF currentObj.v[name].t = "arr" /\ child # Thrown
                       THEN SetKey(currentObj, name,
                                   descendExisting(currentObj.v[name], child))
                       ELSE Thrown
                  ELSE IF child = Thrown THEN Thrown
                       ELSE SetKey(currentObj, name, Arr(<<child>>))
             ELSE IF child = Thrown THEN Thrown
                  ELSE SetKey(currentObj, key, child)

addValueAtPath(object, path, value) ==
  Walk(object, SplitPath(path, <<>>, <<>>), value)

\* JWK.asKey(cert).toJWK()
x509ToJwk(cert) ==
  Obj([k \in {<<"kty">>, <<"n">>} |->
         IF k = <<"kty">> THEN Str(<<"RSA">>) ELSE Str(<<PubKey(cert)>>)])

\* the document resolveTlsDid starts from: context, subject and
\* verification method
baseDocument(d, jwk) ==
  Obj([k \in {<<"@context">>, <<"id">>, <<"verificationMethod">>} |->
         IF k = <<"@context">> THEN Str(<<"https://www.w3.org/ns/did/v1">>)
         ELSE IF k = <<"id">> THEN Str(d)
         ELSE Arr(<<Obj([m \in {<<"id">>, <<"type">>, <<"controller">>,
                                <<"publicKeyJwk">>} |->
                           IF m = <<"id">> THEN Str(d \o <<"#keys-1">>)
                           ELSE IF m = <<"type">> THEN Str(<<"JsonWebKey2020">>)
                           ELSE IF m = <<"controller">> THEN Str(d)
                           ELSE jwk])>>)])

-----------------------------------------------------------------------------
(* Attributes stored on identity records *)

AttrPaths == {<<"id">>,
              <<"verificationMethod", "/", "controller">>,
              <<"verificationMethod", "[", "]", "/", "keyB">>,
              <<"array", "[", "]", "/", "keyA">>}

AttrValues == {<<"value">>}

Attributes == [path : AttrPaths, value : AttrValues]

AttrLists == SeqsUpTo(Attributes, MaxAttrs)

Times == 0..MaxTime

\* object-hash over {domain, address, attributes, expiry}: deterministic and
\* sensitive to the order of the attribute list
hashContract(domain, address, attributes, expiry) ==
  <<domain, address, attributes, expiry>>

StaleHash == <<"stale">>

\* crypto verify: the signature was made by the certificate's key over data
verify(pemCert, signature, data) ==
  signature.key = PubKey(pemCert) /\ signature.msg = data

-----------------------------------------------------------------------------
(* Errors a resolution can reject with *)

ErrNoContract == "No contract was found"

ErrNoChains == "No tls certificates were found."

ErrNoValidChain == "No valid tls chains was found."

ErrMultipleChains == "Multiple valid tls chains were found."

ErrMultipleContracts == "contracts were found. Multiple were valid."

ErrNoneValid == "contracts were found. None was valid."

\* raised inside verifyChain and not caught anywhere
ErrParse == "certificateFromPem threw"

ErrPath == "verifyCertificateChain threw"

ErrNoOCSPUri == "checkForOCSP rejected with false"

ErrOCSP == "checkOCSP rejected"

\* raised inside addValueAtPath
ErrTypeError == "TypeError: push is not a function"

\* contract.getAttribute(i) with i past the end of the stored list
ErrGetAttribute == "getAttribute rejected"

\* raised inside verifyContract
ThrowDomain == "throw: DID identifier does not match contract domain"

ThrowExpired == "throw: Contract expired"

ThrowLedger == "throw: ledger read failed"

ThrowVerify == "throw: crypto verify threw"

CandidateThrows == {ThrowDomain, ThrowExpired, ThrowLedger, ThrowVerify}

NoDocument == [t |-> "undefined", v |-> <<>>]

NoSignature == [key |-> "unset", msg |-> <<>>]

NoCall == [address |-> None, signature |-> NoSignature,
           contractDomain |-> Undefined, attributes |-> <<>>, expiry |-> 0,
           now |-> 0, result |-> "unset"]

-----------------------------------------------------------------------------
(* Initial state: a resolution of `did` has been requested *)

Init ==
  /\ pc = "getContracts"
  /\ did \in DIDs
  /\ addresses = <<>>
  /\ chains = <<>>
  /\ filterdChains = <<>>
  /\ verifiedChains = <<>>
  /\ vch = NoFrame
  /\ validChains = <<>>
  /\ idx = 0
  /\ vcon = NoCall
  /\ verdicts = <<>>
  /\ validContract = None
  /\ ledgerAttrs = [a \in Addr |-> <<>>]
  /\ attrRead = {}
  /\ didDocument = NoDocument
  /\ attributeCount = 0
  /\ ai = 0
  /\ err = None
  /\ result = NoDocument
  /\ verifiedAttributes = <<>>
  /\ mergedAttributes = <<>>

\* the promise returned by resolveTlsDid rejects with e
Reject(e) == pc' = "failed" /\ err' = e

-----------------------------------------------------------------------------
(* resolveContract, lines 27-40: read the candidate addresses and chains *)

getContracts ==
  /\ pc = "getContracts"
  /\ \E as \in AddrLists :
       /\ addresses' = as
       /\ IF Len(as) = 0
          THEN Reject(ErrNoContract)
          ELSE pc' = "getChains" /\ err' = err
  /\ UNCHANGED <<verifiedAttributes, mergedAttributes>>
  /\ UNCHANGED <<did, chains, filterdChains, verifiedChains, vch, validChains,
                 idx, vcon, verdicts, validContract, ledgerAttrs, attrRead,
                 didDocument, attributeCount, ai, result>>

\* getChains, then the entry of processChains: deduplicate
getChains ==
  /\ pc = "getChains"
  /\ \E cs \in ChainLists :
       /\ chains' = cs
       /\ IF Len(cs) = 0
          THEN Reject(ErrNoChains) /\ filterdChains' = filterdChains
          ELSE /\ filterdChains' = Dedupe(cs, <<>>)
               /\ pc' = "verifyChain"
               /\ err' = err
  /\ UNCHANGED <<verifiedAttributes, mergedAttributes>>
  /\ UNCHANGED <<did, addresses, verifiedChains, vch, validChains, idx, vcon,
                 verdicts, validContract, ledgerAttrs, attrRead, didDocument,
                 attributeCount, ai, result>>

-----------------------------------------------------------------------------
(* processChains loop: one verifyChain call per deduplicated chain *)

\* verifyChain up to the point where the OCSP query is sent
verifyChain ==
  /\ pc = "verifyChain"
  /\ LET chain == chainToCerts(filterdChains[Len(verifiedChains) + 1])
         domain == didDomain(did)
     IN \E parsed \in {"ok", "throw"}, path \in PathResults,
           subject \in Subjects, uri \in {"yes", "no"} :
          IF parsed = "throw"
          THEN /\ path = "ok" /\ subject = Undefined /\ uri = "yes"
               /\ vch' = [NoFrame EXCEPT !.chain = chain, !.parsed = parsed]
               /\ Reject(ErrParse)
          ELSE IF path = "throw"
          THEN /\ subject = Undefined /\ uri = "yes"
               /\ vch' = [NoFrame EXCEPT !.chain = chain, !.parsed = parsed,
                                         !.path = path]
               /\ Reject(ErrPath)
          ELSE /\ (path = "fail" => subject = Undefined)
               /\ vch' = [chain |-> chain, parsed |-> parsed, path |-> path,
                          subject |-> subject, hasOCSP |-> uri,
                          status |-> "unset",
                          valid |-> chainValidBeforeOCSP(path, subject, domain)]
               /\ IF uri = "no"
                  THEN Reject(ErrNoOCSPUri)
                  ELSE /\ err' = err
                       /\ pc' = IF vch'.valid THEN "checkOCSP"
                                ELSE "verifyChainReturn"
  /\ UNCHANGED <<verifiedAttributes, mergedAttributes>>
  /\ UNCHANGED <<did, addresses, chains, filterdChains, verifiedChains,
                 validChains, idx, vcon, verdicts, validContract, ledgerAttrs,
                 attrRead, didDocument, attributeCount, ai, result>>

\* the callback of ocsp.check runs with (err, res)
checkOCSP ==
  /\ pc = "checkOCSP"
  /\ \E type \in OcspResponses :
       /\ vch' = [vch EXCEPT !.status = type,
                             !.valid = vch.valid /\ checkOCSPValid(type)]
       /\ IF type = "none"
          THEN Reject(ErrOCSP)
          ELSE pc' = "verifyChainReturn" /\ err' = err
  /\ UNCHANGED <<verifiedAttributes, mergedAttributes>>
  /\ UNCHANGED <<did, addresses, chains, filterdChains, verifiedChains,
                 validChains, idx, vcon, verdicts, validContract, ledgerAttrs,
                 attrRead, didDocument, attributeCount, ai, result>>

\* the responder never answers: the callback of ocsp.check never runs and
\* nothing else settles the promise
checkOCSPNoResponse ==
  /\ pc = "checkOCSP"
  /\ pc' = "checkOCSPPending"
  /\ vch' = [vch EXCEPT !.status = "pending"]
  /\ UNCHANGED <<verifiedAttributes, mergedAttributes>>
  /\ UNCHANGED <<did, addresses, chains, filterdChains, verifiedChains,
                 validChains, idx, vcon, verdicts, validContract, ledgerAttrs,
                 attrRead, didDocument, attributeCount, ai, err, result>>

\* return { chain, valid } and verifiedChains.push(...)
verifyChainReturn ==
  /\ pc = "verifyChainReturn"
  /\ verifiedChains' = Append(verifiedChains,
                              [chain |-> vch.chain, valid |-> vch.valid])
  /\ vch' = NoFrame
  /\ pc' = IF Len(verifiedChains') = Len(filterdChains)
           THEN "selectChain" ELSE "verifyChain"
  /\ UNCHANGED <<verifiedAttributes, mergedAttributes>>
  /\ UNCHANGED <<did, addresses, chains, filterdChains, validChains, idx,
                 vcon, verdicts, validContract, ledgerAttrs, attrRead,
                 didDocument, attributeCount, ai, err, result>>

IsValidOutcome(o) == o.valid

\* a decision that takes the first valid chain when there are several
chainDecision_firstWins(n) ==
  IF n = 0 THEN ErrNoValidChain ELSE None

\* what resolveContract does with the number of valid chains
chainDecision(n) ==
  IF n = 0 THEN ErrNoValidChain
  ELSE IF n > 1 THEN ErrMultipleChains
  ELSE None

\* resolveContract, lines 42-47
selectChain ==
  /\ pc = "selectChain"
  /\ validChains' = SelectSeq(verifiedChains, IsValidOutcome)
  /\ IF chainDecision(Len(validChains')) # None
     THEN Reject(chainDecision(Len(validChains'))) /\ idx' = idx
     ELSE pc' = "verifyContract" /\ idx' = 1 /\ err' = err
  /\ UNCHANGED <<verifiedAttributes, mergedAttributes>>
  /\ UNCHANGED <<did, addresses, chains, filterdChains, verifiedChains, vch,
                 vcon, verdicts, validContract, ledgerAttrs, attrRead,
                 didDocument, attributeCount, ai, result>>

-----------------------------------------------------------------------------
(* Candidate loop of resolveContract, lines 52-68 *)

\* expiry && expiry < now, where expiry is the Date built from the ledger's
\* number: a Date object is truthy whatever its value
isExpired(expiry, now) == TRUE /\ expiry < now

\* the outcome of one verifyContract call on what it read
verifyContractResult(domain, cert, read, now, cryptoThrows) ==
  IF domain # read.contractDomain THEN ThrowDomain
  ELSE IF isExpired(read.expiry, now) THEN ThrowExpired
  ELSE IF cryptoThrows THEN ThrowVerify
  ELSE IF verify(cert, read.signature,
                 hashContract(domain, read.address, read.attributes,
                              read.expiry))
       THEN "true" ELSE "false"

\* verifyContract(contract, did, validChains[0].chain[0])
verifyContract ==
  /\ pc = "verifyContract"
  /\ idx <= Len(addresses)
  /\ LET address == addresses[idx]
         cert == validChains[1].chain[1]
         domain == didDomain(did)
     IN \/ /\ vcon' = [NoCall EXCEPT !.address = address,
                                     !.result = ThrowLedger]
           /\ UNCHANGED <<ledgerAttrs, attrRead>>
        \/ \E key \in LeafKeys, signedStored \in BOOLEAN,
              contractDomain \in Domains, expiry \in Times,
              now \in 1..MaxTime, cryptoThrows \in BOOLEAN,
              attributes \in (IF address \in attrRead
                              THEN {ledgerAttrs[address]} ELSE AttrLists) :
             LET signature ==
                   [key |-> key,
                    msg |-> IF signedStored
                            THEN hashContract(contractDomain, address,
                                              attributes, expiry)
                            ELSE StaleHash]
                 read == [address |-> address, signature |-> signature,
                          contractDomain |-> contractDomain,
                          attributes |-> attributes, expiry |-> expiry]
                 res == verifyContractResult(domain, cert, read, now,
                                             cryptoThrows)
             IN IF res = ThrowDomain
                THEN /\ expiry = 0 /\ now = 1 /\ ~cryptoThrows
                     /\ attributes = ledgerAttrs[address]
                     /\ vcon' = [NoCall EXCEPT !.address = address,
                                               !.signature = signature,
                                               !.contractDomain = contractDomain,
                                               !.result = res]
                     /\ UNCHANGED <<ledgerAttrs, attrRead>>
                ELSE /\ (res = ThrowExpired => ~cryptoThrows)
                     /\ vcon' = [address |-> address, signature |-> signature,
                                 contractDomain |-> contractDomain,
                                 attributes |-> attributes, expiry |-> expiry,
                                 now |-> now, result |-> res]
                     /\ ledgerAttrs' = [ledgerAttrs EXCEPT ![address] = attributes]
                     /\ attrRead' = attrRead \cup {address}
  /\ pc' = "candidateCheck"
  /\ UNCHANGED <<verifiedAttributes, mergedAttributes>>
  /\ UNCHANGED <<did, addresses, chains, filterdChains, verifiedChains, vch,
                 validChains, idx, verdicts, validContract, didDocument,
                 attributeCount, ai, err, result>>

\* a loop without the try statement
propagates_uncaught(res) == res \in CandidateThrows

\* try { valid = await verifyContract(...) } catch (err) { console.log(err) }
\* TRUE when the error leaves the loop
propagates(res) == FALSE

\* the value of `valid` after the try statement
validAfterTry(res) == res = "true"

\* a loop that keeps the first valid candidate and ignores later ones
loopDecision_firstWins(valid, selected) ==
  IF valid /\ selected = None THEN "select" ELSE "continue"

\* if (valid && !validContract) ... else if (valid) throw ...
loopDecision(valid, selected) ==
  IF valid /\ selected = None THEN "select"
  ELSE IF valid THEN "throw"
  ELSE "continue"

candidateCheck ==
  /\ pc = "candidateCheck"
  /\ verdicts' = Append(verdicts, vcon.result)
  /\ vcon' = NoCall
  /\ IF propagates(vcon.result)
     THEN /\ Reject(vcon.result)
          /\ UNCHANGED <<idx, validContract, verifiedAttributes>>
     ELSE LET d == loopDecision(validAfterTry(vcon.result), validContract)
          IN IF d = "throw"
             THEN /\ Reject(ErrMultipleContracts)
                  /\ UNCHANGED <<idx, validContract, verifiedAttributes>>
             ELSE /\ validContract' = IF d = "select" THEN vcon.address
                                      ELSE validContract
                  /\ verifiedAttributes' = IF d = "select" THEN vcon.attributes
                                           ELSE verifiedAttributes
                  /\ idx' = idx + 1
                  /\ pc' = "verifyContract"
                  /\ err' = err
  /\ UNCHANGED mergedAttributes
  /\ UNCHANGED <<did, addresses, chains, filterdChains, verifiedChains, vch,
                 validChains, ledgerAttrs, attrRead, didDocument,
                 attributeCount, ai, result>>

\* resolveContract, lines 73-80, then resolveTlsDid, lines 158-174
selectContract ==
  /\ pc = "verifyContract"
  /\ idx > Len(addresses)
  /\ IF validContract # None
     THEN /\ didDocument' = baseDocument(did, x509ToJwk(validChains[1].chain[1]))
          /\ attributeCount' = Len(ledgerAttrs[validContract])
          /\ ai' = 1
          /\ pc' = "addAttributes"
          /\ err' = err
     ELSE /\ Reject(ErrNoneValid)
          /\ UNCHANGED <<didDocument, attributeCount, ai>>
  /\ UNCHANGED <<verifiedAttributes, mergedAttributes>>
  /\ UNCHANGED <<did, addresses, chains, filterdChains, verifiedChains, vch,
                 validChains, idx, vcon, verdicts, validContract, ledgerAttrs,
                 attrRead, result>>

-----------------------------------------------------------------------------
(* resolveTlsDid, lines 175-181: merge the attributes and return *)

addAttribute ==
  /\ pc = "addAttributes"
  /\ ai <= attributeCount
  /\ IF ai > Len(ledgerAttrs[validContract])
     THEN /\ Reject(ErrGetAttribute)
          /\ UNCHANGED <<didDocument, ai, mergedAttributes>>
     ELSE LET attribute == ledgerAttrs[validContract][ai]
              merged == addValueAtPath(didDocument, attribute.path,
                                       Str(attribute.value))
          IN IF merged = Thrown
             THEN /\ Reject(ErrTypeError)
                  /\ UNCHANGED <<didDocument, ai, mergedAttributes>>
             ELSE /\ didDocument' = merged
                  /\ mergedAttributes' = Append(mergedAttributes, attribute)
                  /\ ai' = ai + 1
                  /\ pc' = pc
                  /\ err' = err
  /\ UNCHANGED verifiedAttributes
  /\ UNCHANGED <<did, addresses, chains, filterdChains, verifiedChains, vch,
                 validChains, idx, vcon, verdicts, validContract, ledgerAttrs,
                 attrRead, attributeCount, result>>

returnDocument ==
  /\ pc = "addAttributes"
  /\ ai > attributeCount
  /\ result' = didDocument
  /\ pc' = "done"
  /\ UNCHANGED <<verifiedAttributes, mergedAttributes>>
  /\ UNCHANGED <<did, addresses, chains, filterdChains, verifiedChains, vch,
                 validChains, idx, vcon, verdicts, validContract, ledgerAttrs,
                 attrRead, didDocument, attributeCount, ai, err>>

-----------------------------------------------------------------------------

Next ==
  \/ getContracts
  \/ getChains
  \/ verifyChain
  \/ checkOCSP
  \/ checkOCSPNoResponse
  \/ verifyChainReturn
  \/ selectChain
  \/ verifyContract
  \/ candidateCheck
  \/ selectContract
  \/ addAttribute
  \/ returnDocument

Spec == Init /\ [][Next]_vars

\* every step of the program that is enabled is eventually taken
FairSpec == Spec /\ WF_vars(Next)

-----------------------------------------------------------------------------
(* The ledger is shared: the owner of a contract may replace its attribute  *)
(* list while a resolution is between two of its reads                      *)

ledgerSetAttributes ==
  /\ pc \notin {"done", "failed", "checkOCSPPending"}
  /\ \E address \in attrRead, attributes \in AttrLists :
       /\ attributes # ledgerAttrs[address]
       /\ ledgerAttrs' = [ledgerAttrs EXCEPT ![address] = attributes]
  /\ UNCHANGED <<pc, did, addresses, chains, filterdChains, verifiedChains,
                 vch, validChains, idx, vcon, verdicts, validContract,
                 attrRead, didDocument, attributeCount, ai, err, result,
                 verifiedAttributes, mergedAttributes>>

NextLedger == Next \/ ledgerSetAttributes

SpecLedger == Init /\ [][NextLedger]_vars

-----------------------------------------------------------------------------
(* Properties *)

NumValid ==
  Cardinality({i \in 1..Len(verifiedChains) : verifiedChains[i].valid})

\* processChains has returned and lines 42-47 have run
ChainsProcessed ==
  /\ filterdChains # <<>>
  /\ Len(verifiedChains) = Len(filterdChains)
  /\ pc # "selectChain"

\* C1: once every distinct chain has an outcome, zero valid outcomes end the
\* resolution with the no-valid-chain error and two or more with the
\* ambiguous-chain error; candidates are examined only when exactly one
\* outcome is valid, and otherwise no candidate is examined, none is selected
\* and no document is returned.
C1_ExactlyOneValidChain ==
  ChainsProcessed =>
    /\ NumValid = 0 => pc = "failed" /\ err = ErrNoValidChain
    /\ NumValid >= 2 => pc = "failed" /\ err = ErrMultipleChains
    /\ NumValid # 1 => /\ verdicts = <<>>
                       /\ vcon = NoCall
                       /\ validContract = None
                       /\ didDocument = NoDocument
                       /\ result = NoDocument
    /\ NumValid = 1 => Len(validChains) = 1 /\ validChains[1].valid

C1_Witness ==
  /\ pc = "failed"
  /\ err = ErrMultipleChains
  /\ NumValid = 2
  /\ verifiedChains[1].chain # verifiedChains[2].chain

NumTrue == Cardinality({i \in 1..Len(verdicts) : verdicts[i] = "true"})

\* C2: with the unique valid chain, selection succeeds exactly when one
\* candidate passed verifyContract, whose signature then verifies against the
\* leaf key of that chain (and a candidate verifyContract answered false for
\* has a signature that does not), and the selected candidate is that one;
\* with none it fails with the no-valid-candidate error, with two with the
\* ambiguous-candidate error, for every order of the address list.
C2_ExactlyOneCandidate ==
  /\ (pc \in {"addAttributes", "done"} \/ (pc = "failed" /\ err = ErrTypeError))
       => /\ Len(verdicts) = Len(addresses)
          /\ NumTrue = 1
          /\ \E i \in 1..Len(verdicts) :
               verdicts[i] = "true" /\ validContract = addresses[i]
  /\ (pc = "failed" /\ err = ErrNoneValid)
       => Len(verdicts) = Len(addresses) /\ NumTrue = 0
  /\ (pc = "failed" /\ err = ErrMultipleContracts) => NumTrue >= 2
  /\ NumTrue >= 2 => pc = "failed" /\ err = ErrMultipleContracts
  /\ (NumTrue = 1 /\ pc # "failed") =>
       \E i \in 1..Len(verdicts) :
         verdicts[i] = "true" /\ validContract = addresses[i]
  /\ (pc = "candidateCheck" /\ vcon.result = "true")
       => /\ vcon.signature.key = PubKey(validChains[1].chain[1])
          /\ verify(validChains[1].chain[1], vcon.signature,
                    hashContract(didDomain(did), vcon.address,
                                 vcon.attributes, vcon.expiry))
  /\ (pc = "candidateCheck" /\ vcon.result = "false")
       => ~verify(validChains[1].chain[1], vcon.signature,
                  hashContract(didDomain(did), vcon.address,
                               vcon.attributes, vcon.expiry))

C2_Witness ==
  /\ pc = "done"
  /\ Len(addresses) = 2
  /\ verdicts = <<"false", "true">>
  /\ validContract = addresses[2]

\* C3: whenever an outcome marked valid is recorded, path verification of the
\* chain succeeded, the leaf's first subject attribute equals the requested
\* domain, and, the leaf advertising a revocation endpoint, the status
\* returned was good.
C3_ValidOnlyIfAllChecksPass ==
  [][(Len(verifiedChains') = Len(verifiedChains) + 1
      /\ verifiedChains'[Len(verifiedChains')].valid)
     => /\ verifiedChains'[Len(verifiedChains')].chain = vch.chain
        /\ vch.parsed = "ok"
        /\ vch.path = "ok"
        /\ vch.subject = didDomain(did)
        /\ (vch.hasOCSP = "yes" => vch.status = "good")
        /\ vch.status \notin {"revoked", "unknown"}]_vars

C3_Witness ==
  /\ Len(verifiedChains) = 2
  /\ verifiedChains[1].valid
  /\ ~verifiedChains[2].valid

\* C4: a leaf that advertises no revocation endpoint has the revocation check
\* skipped: validation completes without error and the outcome's validity is
\* that of path verification and subject match.
C4_NoEndpointSkipsCheck ==
  vch.hasOCSP = "no" =>
    /\ pc = "verifyChainReturn"
    /\ err = None
    /\ vch.valid = chainValidBeforeOCSP(vch.path, vch.subject, didDomain(did))

\* C5: a failed revocation query or a certificate that cannot be parsed does
\* not end the validation of the chain set: every distinct chain still has
\* its outcome, in input order.
C5_ChainFailureIsolated ==
  (pc = "failed" /\ err \in {ErrOCSP, ErrParse}) =>
    /\ Len(verifiedChains) = Len(filterdChains)
    /\ \A i \in 1..Len(verifiedChains) :
         verifiedChains[i].chain = chainToCerts(filterdChains[i])

\* C6: merging an attribute whose path starts with a non-final array segment
\* whose array already exists leaves the array's length unchanged and its
\* last element with the keys it already held.
C6_DescendIntoLastElement ==
  [][(pc = "addAttributes" /\ ai <= attributeCount /\ pc' # "failed")
     => LET pathArr == SplitPath(ledgerAttrs[validContract][ai].path,
                                 <<>>, <<>>)
            name == SliceKey(pathArr[1])
        IN (/\ Len(pathArr) > 1
            /\ EndsWithBrackets(pathArr[1])
            /\ Truthy(didDocument, name)
            /\ didDocument.v[name].t = "arr")
           => LET old == didDocument.v[name].v
                  new == didDocument'.v[name].v
              IN /\ Len(new) = Len(old)
                 /\ DOMAIN old[Len(old)].v \subseteq DOMAIN new[Len(new)].v]_vars

\* document.id
IdOf(doc) ==
  IF Has(doc, <<"id">>) /\ doc.v[<<"id">>].t = "str"
  THEN doc.v[<<"id">>].v ELSE Undefined

\* document.verificationMethod[0].controller
ControllerOf(doc) ==
  IF ~Has(doc, <<"verificationMethod">>) THEN Undefined
  ELSE LET vm == doc.v[<<"verificationMethod">>]
       IN IF vm.t # "arr" THEN Undefined
          ELSE IF Len(vm.v) = 0 THEN Undefined
          ELSE IF vm.v[1].t # "obj" THEN Undefined
          ELSE IF ~Has(vm.v[1], <<"controller">>) THEN Undefined
          ELSE IF vm.v[1].v[<<"controller">>].t # "str" THEN Undefined
          ELSE vm.v[1].v[<<"controller">>].v

\* C7: a returned document has the input identifier as its id and as the
\* controller of its first verification method.
C7_DocumentNamesIdentifier ==
  pc = "done" => IdOf(result) = did /\ ControllerOf(result) = did

\* C8: a resolution that has sent a revocation query eventually completes or
\* fails.
C8_RevocationQueryTerminates ==
  (pc = "checkOCSP") ~> (pc \in {"done", "failed"})

\* C9: an error raised by verifyContract for one candidate does not end the
\* resolution; the loop moves to the next candidate with the selection
\* unchanged, and a candidate that verifies while none is selected yet is
\* selected whatever was raised before it.
C9_CandidateErrorIsCaught ==
  [][/\ (pc = "candidateCheck" /\ vcon.result \in CandidateThrows)
          => /\ pc' = "verifyContract"
             /\ err' = None
             /\ idx' = idx + 1
             /\ validContract' = validContract
     /\ (pc = "candidateCheck" /\ vcon.result = "true" /\ validContract = None)
          => /\ pc' = "verifyContract"
             /\ validContract' = vcon.address]_vars

C9_Witness ==
  /\ pc = "done"
  /\ Len(verdicts) = 2
  /\ verdicts[1] \in CandidateThrows
  /\ verdicts[2] = "true"
  /\ validContract = addresses[2]

\* C10: a candidate is rejected as expired only when its expiry is set
\* (not zero) and earlier than the current time.
C10_UnsetExpiryNeverExpired ==
  (pc = "candidateCheck" /\ vcon.result = ThrowExpired)
    => vcon.expiry # 0 /\ vcon.expiry < vcon.now

\* C11: the attributes merged into a returned document are the attribute
\* list, in the same order, that was hashed when the selected candidate's
\* signature was verified.
C11_MergedAttributesWereVerified ==
  pc = "done" => mergedAttributes = verifiedAttributes

====
